---- MODULE Spec2Model ----
(***************************************************************************)
(* mkcbt (src/src/main.rs): a bounded pipeline of external avifenc         *)
(* processes whose outputs are written, in submission order, into a        *)
(* streaming tar archive.  The main thread of run() is one process of the  *)
(* model; every spawned avifenc child is another.                          *)
(***************************************************************************)
EXTENDS Integers, Sequences, FiniteSets

\* ------------------------------------------------------------------ bounds
\* A run has 1..MaxInputs input files, or ManyInputs of them (ten or more
\* inputs make the width of the archive names reach 2).
MaxInputs == 3
ManyInputs == 10
\* Largest value std::thread::available_parallelism() returns.
MaxProcs == 2
\* Number of distinct values the sub-second clock can return.
MaxNanos == 2

\* ---------------------------------------------------------------- constants
\* Length of SimpleTarArchive::ZEROS, the end-of-archive marker.
ZEROS == 1024
\* A tar block.
BlockSize == 512

Nanos == 1..MaxNanos
InputCounts == (1..MaxInputs) \cup {ManyInputs}
InputIds == 1..(IF ManyInputs > MaxInputs THEN ManyInputs ELSE MaxInputs)
\* Extensions of the input files: the sorted inputs carry them in rotation,
\* starting anywhere.
InputExts == <<"png", "AVIF">>
ExtOf(i, shift) == InputExts[((i + shift) % Len(InputExts)) + 1]

Min(a, b) == IF a < b THEN a ELSE b

\* ------------------------------------------------------------ pure helpers
\* usize::to_string: the decimal digits of n, most significant first.
RECURSIVE ToString(_)
ToString(n) == IF n < 10 THEN <<n>> ELSE ToString(n \div 10) \o <<n % 10>>

\* let width = inputs.len().to_string().len();
Width(n) == Len(ToString(n))

\* format!("{:0fill$}", index, fill = width): left-padded with zeros to at
\* least `fill` digits, never truncated.
PadNone(index, fill) == ToString(index)
Pad(index, fill) ==
    LET s == ToString(index)
    IN  IF Len(s) >= fill THEN s ELSE [i \in 1..(fill - Len(s)) |-> 0] \o s

\* str::to_ascii_lowercase on the extensions of InputExts.
ToAsciiLowercase(e) ==
    CASE e = "AVIF" -> "avif"
      [] e = "PNG" -> "png"
      [] OTHER -> e

VARIABLES
    conversion,     \* Conversion::Copy or Conversion::Avif (run, line 240)
    inputs,         \* the sorted inputs (line 287)
    width,          \* digits of inputs.len() (line 288)
    inputs_queue,   \* VecDeque of the inputs not yet submitted (line 289)
    process_count,  \* available_parallelism (line 314); 0 before it is read
    prefill_left,   \* iterations left of the pre-fill for loop (line 316)
    task_queue,     \* VecDeque<Task> (line 315)
    cur,            \* the task popped and being finished, or NoTask
    ret,            \* the loop Task::finish returns to: "loop" or "drain"
    index,          \* the index counter (line 320)
    pc,             \* position of the main thread
    result,         \* the value run() is returning: "none", "Ok" or the io::Error
    panicking,      \* the main thread is unwinding from a panic
    status,         \* how the program ended: "running", "exit0", "exit1", "panic", "abort"
    stderr,         \* diagnostics printed, in order
    archive,        \* SimpleTarArchive: "none", "open", "dropped"
    sink,           \* what was written to the archive's writer, in order (see Entry)
    flushed,        \* writer.flush() returned Ok in Drop
    work_dir,       \* TempDir: "none", "exists", "removed"
    files,          \* the work directory: file name -> input whose avifenc wrote it, 0 if absent
    procs,          \* avifenc children by input: [state, out]
    submitted,      \* history: inputs in the order their tasks were pushed
    finish_calls,   \* history: the (task, index) pairs passed to Task::finish
    last_new,       \* history: the latest Task::new call
    last_write,     \* history: the task and the content of the latest entry written
    failed_wait,    \* history: the index of the first task whose child wait() found failed, or 0
    input_files,    \* the caller's input files that exist, by rank
    reliable,       \* the environment of this run never fails (no I/O error, every avifenc succeeds)
    tar_state,      \* a SimpleTarArchive taken alone: "none", "open", "failed", "dropped"
    tar_mtime,      \* its mtime field (line 94)
    tar_calls,      \* the write_file calls made on it
    tar_src,        \* the file the latest write_file call read: [input, len]
    tar_entry,      \* the bytes the latest write_file call wrote
    tar_total       \* the number of bytes written to its writer so far

\* The variables of the archive writer taken alone.
tarvars == <<tar_state, tar_mtime, tar_calls, tar_src, tar_entry, tar_total>>

\* The variables of the pipeline.
pipevars == <<conversion, inputs, width, inputs_queue, process_count, prefill_left,
              task_queue, cur, ret, index, pc, result, panicking, status, stderr,
              archive, sink, flushed, work_dir, files, procs, submitted,
              finish_calls, last_new, last_write, failed_wait, input_files>>

vars == <<pipevars, reliable, tarvars>>

\* ------------------------------------------------------------------ values
\* A path: an input file (dir "input", id its rank in the sorted inputs) or
\* a file of the work directory (dir "work", id the clock value naming it).
InputPath(i, e) == [dir |-> "input", id |-> i, ext |-> e]
WorkPath(t) == [dir |-> "work", id |-> t, ext |-> "avif"]

NoTask == [input |-> 0, path |-> InputPath(0, ""), conversion |-> "Copy", convert_proc |-> FALSE]
NoProc == [state |-> "none", out |-> 0]
\* A child that wait() has collected.
Reaped == [state |-> "reaped", out |-> 0]
NoNew == [input |-> 0, ext |-> "", conversion |-> "Copy", spawned |-> FALSE]

\* Path::exists for a path of the work directory.
Exists(t) == work_dir = "exists" /\ files[t] # 0

\* generate_unique_file_name: the clock is resampled until the candidate
\* does not exist, so the result is any clock value naming no existing file.
GenerateUniqueFileName == {t \in Nanos : ~Exists(t)}

\* ------------------------------------------------- operators of run/Task
\* min(inputs_queue.len(), process_count) - 1: iterations of the pre-fill loop.
PrefillCountFull(len, count) == Min(len, count)
PrefillCount(len, count) == Min(len, count) - 1

\* VecDeque::pop_front: the position popped.
BackPos(q) == Len(q)
FrontPos(q) == 1
Without(q, k) == [j \in 1..(Len(q) - 1) |-> IF j < k THEN q[j] ELSE q[j + 1]]

\* index += 1
NextIndex(i) == i + 1

\* The conversion a task is created with: run() passes conversion.clone()
\* for every input, whatever its extension.
ConversionByExtension(conv, ext) ==
    IF conv = "Avif" /\ ToAsciiLowercase(ext) = "avif" THEN "Copy" ELSE conv
TaskConversion(conv, ext) == conv

\* child.wait()?.success()
SuccessAlways(state) == TRUE
Success(state) == state = "exited_ok"

\* The extension of the archive name (Task::finish, lines 217-225).
ArchiveExt(task) ==
    IF task.conversion = "Copy"
    THEN (IF task.path.ext = "" THEN "" ELSE ToAsciiLowercase(task.path.ext))
    ELSE "avif"


\* What reading a path to EOF yields: whose bytes they are.
Content(path) ==
    IF path.dir = "input" THEN [src |-> "input", id |-> path.id]
    ELSE [src |-> "avifenc", id |-> files[path.id]]

\* Whether metadata()/File::open can find the file.
SourceExists(path) ==
    IF path.dir = "input" THEN path.id \in input_files ELSE Exists(path.id)

\* if self.conversion != Conversion::Copy (line 227): whether finish removes
\* the file at self.path.
RemovesAlways(conv) == TRUE
RemovesFile(conv) == conv # "Copy"

\* A record of the sink.  An entry as write_file appends it: the header
\* with the name (the extension without its dot, "" for none), then the
\* content and the padding; whose bytes the content is, last_write tells
\* for the latest entry.  len counts the bytes of a marker only.
Entry(task, i, fill) ==
    [kind |-> "entry", task |-> task.input, index |-> i,
     name |-> [digits |-> Pad(i, fill), ext |-> ArchiveExt(task)], len |-> 0]
\* A header, or a header and part of the content, before a write failed.
Partial == [kind |-> "partial", task |-> 0, index |-> 0,
            name |-> [digits |-> <<>>, ext |-> ""], len |-> 0]
\* writer.write_all(&Self::ZEROS)
HalfMarker == [kind |-> "zeros", task |-> 0, index |-> 0,
               name |-> [digits |-> <<>>, ext |-> ""], len |-> BlockSize]
EndMarker == [kind |-> "zeros", task |-> 0, index |-> 0,
              name |-> [digits |-> <<>>, ext |-> ""], len |-> ZEROS]
NoWrite == [task |-> 0, content |-> [src |-> "none", id |-> 0]]

\* -------------------------------------------------------------------- Init
\* The state at line 289: the inputs are collected and sorted (an input is
\* named by its rank in that order), nothing is created yet.
Setup ==
    /\ conversion \in {"Copy", "Avif"}
    /\ \E n \in InputCounts, shift \in 0..(Len(InputExts) - 1) :
          inputs = [i \in 1..n |-> InputPath(i, ExtOf(i, shift))]
    /\ width = Width(Len(inputs))
    /\ inputs_queue = inputs
    /\ process_count = 0
    /\ prefill_left = 0
    /\ task_queue = <<>>
    /\ cur = NoTask
    /\ ret = "loop"
    /\ index = 0
    /\ pc = "archive_create"
    /\ result = "none"
    /\ panicking = FALSE
    /\ status = "running"
    /\ stderr = <<>>
    /\ archive = "none"
    /\ sink = <<>>
    /\ flushed = FALSE
    /\ work_dir = "none"
    /\ files = [t \in Nanos |-> 0]
    /\ procs = [i \in InputIds |-> NoProc]
    /\ submitted = <<>>
    /\ finish_calls = <<>>
    /\ last_new = NoNew
    /\ last_write = NoWrite
    /\ failed_wait = 0
    /\ input_files = {inputs[k].id : k \in 1..Len(inputs)}

\* No archive writer taken alone.
NoTar ==
    /\ tar_state = "none"
    /\ tar_mtime = 0
    /\ tar_calls = 0
    /\ tar_src = [input |-> 0, len |-> 0]
    /\ tar_entry = <<>>
    /\ tar_total = 0

\* A run in an environment that may fail at any call.
Init == Setup /\ reliable = FALSE /\ NoTar

\* ----------------------------------------------------------------- helpers
\* A panic on the main thread: the message is printed; a panic while already
\* unwinding aborts the process, otherwise unwinding continues at `next`.
Panic(msg, next) ==
    /\ stderr' = Append(stderr, msg)
    /\ IF panicking
       THEN /\ status' = "abort"
            /\ pc' = "terminated"
            /\ panicking' = panicking
       ELSE /\ status' = status
            /\ pc' = next
            /\ panicking' = TRUE

\* std::process::exit(1) after a diagnostic: no destructor runs.
ExitNow(msg) ==
    /\ stderr' = Append(stderr, msg)
    /\ status' = "exit1"
    /\ pc' = "terminated"

\* ------------------------------------------------------ run(): set-up
\* ArchiveType::new(stdout) or ArchiveType::create(path)? (lines 292-296)
ArchiveCreate ==
    /\ pc = "archive_create"
    /\ \/ /\ archive' = "open"
          /\ pc' = "work_dir"
          /\ UNCHANGED result
       \/ /\ ~reliable
          /\ result' = "Err(File::create)"
          /\ pc' = "main"
          /\ UNCHANGED archive
    /\ UNCHANGED <<conversion, inputs, width, inputs_queue, process_count,
                   prefill_left, task_queue, cur, ret, index, panicking, status,
                   stderr, sink, flushed, work_dir, files, procs, submitted,
                   finish_calls, last_new, last_write, failed_wait,
                   input_files, reliable, tarvars>>

\* TempDir::new(PROGRAM_NAME) in convert mode, None in copy mode (lines 299-311)
WorkDirCreate ==
    /\ pc = "work_dir"
    /\ \/ /\ conversion = "Copy"
          /\ pc' = "parallelism"
          /\ UNCHANGED <<work_dir, stderr, status, panicking>>
       \/ /\ conversion # "Copy"
          /\ work_dir' = "exists"
          /\ pc' = "parallelism"
          /\ UNCHANGED <<stderr, status, panicking>>
       \/ /\ conversion # "Copy"
          /\ ~reliable
          /\ Panic("Could not create temporary directory", "drop_archive")
          /\ UNCHANGED work_dir
    /\ UNCHANGED <<conversion, inputs, width, inputs_queue, process_count,
                   prefill_left, task_queue, cur, ret, index, result,
                   archive, sink, flushed, files, procs, submitted,
                   finish_calls, last_new, last_write, failed_wait,
                   input_files, reliable, tarvars>>

\* available_parallelism()?.get(), the task queue, the range of the
\* pre-fill loop and index = 0 (lines 314-316, 320)
AvailableParallelism ==
    /\ pc = "parallelism"
    /\ \/ \E p \in 1..MaxProcs :
             /\ process_count' = p
             /\ prefill_left' = PrefillCount(Len(inputs_queue), p)
             /\ pc' = "prefill"
             /\ UNCHANGED result
       \/ /\ ~reliable
          /\ result' = "Err(available_parallelism)"
          /\ pc' = "drop_task_queue"
          /\ UNCHANGED <<process_count, prefill_left>>
    /\ UNCHANGED <<conversion, inputs, width, inputs_queue,
                   task_queue, cur, ret, index, panicking, status,
                   stderr, archive, sink, flushed, work_dir, files, procs, submitted,
                   finish_calls, last_new, last_write, failed_wait,
                   input_files, reliable, tarvars>>

\* ------------------------------------------------------------- Task::new
\* Task::new(&input, conversion.clone(), &work_path) for the front input,
\* pushed on task_queue; `next` is where run() continues.  In convert mode
\* a unique name is generated and avifenc is spawned; a failed spawn prints
\* and exits.
TaskNew(next) ==
    /\ inputs_queue # <<>>
    /\ LET in_path == Head(inputs_queue)
           input == in_path.id
           e == in_path.ext
           conv == TaskConversion(conversion, e)
       IN  /\ inputs_queue' = Tail(inputs_queue)
           /\ IF conv = "Copy"
              THEN /\ task_queue' = Append(task_queue,
                         [input |-> input, path |-> in_path,
                          conversion |-> conv, convert_proc |-> FALSE])
                   /\ submitted' = Append(submitted, input)
                   /\ last_new' = [input |-> input, ext |-> e, conversion |-> conv,
                                   spawned |-> FALSE]
                   /\ pc' = next
                   /\ UNCHANGED <<procs, stderr, status>>
              ELSE \E t \in GenerateUniqueFileName :
                   \/ /\ procs' = [procs EXCEPT ![input] = [state |-> "running", out |-> t]]
                      /\ task_queue' = Append(task_queue,
                            [input |-> input, path |-> WorkPath(t),
                             conversion |-> conv, convert_proc |-> TRUE])
                      /\ submitted' = Append(submitted, input)
                      /\ last_new' = [input |-> input, ext |-> e, conversion |-> conv,
                                      spawned |-> TRUE]
                      /\ pc' = next
                      /\ UNCHANGED <<stderr, status>>
                   \/ /\ ~reliable
                      /\ ExitNow("ERROR! Failed to run avifenc")
                      /\ UNCHANGED <<procs, task_queue, submitted, last_new>>

\* One iteration of the pre-fill loop (lines 316-319).
Prefill ==
    /\ pc = "prefill"
    /\ prefill_left > 0
    /\ prefill_left' = prefill_left - 1
    /\ TaskNew("prefill")
    /\ UNCHANGED <<conversion, inputs, width, process_count, cur, ret, index,
                   result, panicking, archive, sink, flushed, work_dir, files,
                   finish_calls, last_write, failed_wait,
                   input_files, reliable, tarvars>>

\* The pre-fill loop is over.
PrefillDone ==
    /\ pc = "prefill"
    /\ prefill_left = 0
    /\ pc' = "loop"
    /\ UNCHANGED <<conversion, inputs, width, inputs_queue, process_count,
                   prefill_left, task_queue, cur, ret, index, result, panicking,
                   status, stderr, archive, sink, flushed, work_dir, files, procs,
                   submitted, finish_calls, last_new, last_write, failed_wait,
                   input_files, reliable, tarvars>>

\* Main loop, "Submit new job" (lines 321-323).
LoopSubmit ==
    /\ pc = "loop"
    /\ TaskNew("loop_finish")
    /\ UNCHANGED <<conversion, inputs, width, process_count, prefill_left, cur,
                   ret, index, result, panicking, archive, sink, flushed, work_dir,
                   files, finish_calls, last_write, failed_wait,
                   input_files, reliable, tarvars>>

\* Main loop, "Finish front job": index += 1, pop_front, call finish
\* (lines 326-330).
LoopFinish ==
    /\ pc = "loop_finish"
    /\ index' = NextIndex(index)
    /\ cur' = task_queue[FrontPos(task_queue)]
    /\ task_queue' = Without(task_queue, FrontPos(task_queue))
    /\ finish_calls' = Append(finish_calls, [task |-> cur'.input, index |-> index'])
    /\ ret' = "loop"
    /\ pc' = "finish_wait"
    /\ UNCHANGED <<conversion, inputs, width, inputs_queue, process_count,
                   prefill_left, result, panicking, status, stderr, archive, sink,
                   flushed, work_dir, files, procs, submitted, last_new, last_write, failed_wait,
                   input_files, reliable, tarvars>>

\* The main loop ends when inputs_queue is empty (line 321).
LoopDone ==
    /\ pc = "loop"
    /\ inputs_queue = <<>>
    /\ pc' = "drain"
    /\ UNCHANGED <<conversion, inputs, width, inputs_queue, process_count,
                   prefill_left, task_queue, cur, ret, index, result, panicking,
                   status, stderr, archive, sink, flushed, work_dir, files, procs,
                   submitted, finish_calls, last_new, last_write, failed_wait,
                   input_files, reliable, tarvars>>

\* "Finish rest of jobs" (lines 333-336).
Drain ==
    /\ pc = "drain"
    /\ task_queue # <<>>
    /\ index' = NextIndex(index)
    /\ cur' = task_queue[FrontPos(task_queue)]
    /\ task_queue' = Without(task_queue, FrontPos(task_queue))
    /\ finish_calls' = Append(finish_calls, [task |-> cur'.input, index |-> index'])
    /\ ret' = "drain"
    /\ pc' = "finish_wait"
    /\ UNCHANGED <<conversion, inputs, width, inputs_queue, process_count,
                   prefill_left, result, panicking, status, stderr, archive, sink,
                   flushed, work_dir, files, procs, submitted, last_new, last_write, failed_wait,
                   input_files, reliable, tarvars>>

\* Ok(()) (line 338): run() returns and its locals are dropped.
ReturnOk ==
    /\ pc = "drain"
    /\ task_queue = <<>>
    /\ result' = "Ok"
    /\ pc' = "drop_task_queue"
    /\ UNCHANGED <<conversion, inputs, width, inputs_queue, process_count,
                   prefill_left, task_queue, cur, ret, index, panicking,
                   status, stderr, archive, sink, flushed, work_dir, files, procs,
                   submitted, finish_calls, last_new, last_write, failed_wait,
                   input_files, reliable, tarvars>>

\* ---------------------------------------------------------- Task::finish
\* child.wait()?.success() (lines 211-216): blocks until the child has
\* terminated; a failure status prints and exits.
FinishWait ==
    /\ pc = "finish_wait"
    /\ IF ~cur.convert_proc
       THEN /\ pc' = "finish_write"
            /\ UNCHANGED <<procs, stderr, status, failed_wait,
                   input_files, reliable, tarvars>>
       ELSE /\ procs[cur.input].state \in {"exited_ok", "exited_fail"}
            /\ procs' = [procs EXCEPT ![cur.input] = Reaped]
            /\ failed_wait' = IF procs[cur.input].state = "exited_fail" /\ failed_wait = 0
                              THEN index ELSE failed_wait
            /\ IF Success(procs[cur.input].state)
               THEN /\ pc' = "finish_write"
                    /\ UNCHANGED <<stderr, status>>
               ELSE ExitNow("ERROR! Image encoding process returned failure")
    /\ UNCHANGED <<conversion, inputs, width, inputs_queue, process_count,
                   prefill_left, task_queue, cur, ret, index, result, panicking,
                   archive, sink, flushed, work_dir, files, submitted,
                   finish_calls, last_new, last_write,
                   input_files, reliable, tarvars>>

\* child.wait() itself returns an error, propagated by `?` (line 212).
FinishWaitErr ==
    /\ pc = "finish_wait"
    /\ cur.convert_proc
    /\ ~reliable
    /\ result' = "Err(wait)"
    /\ pc' = "drop_task_queue"
    /\ UNCHANGED <<conversion, inputs, width, inputs_queue, process_count,
                   prefill_left, task_queue, cur, ret, index, panicking, status,
                   stderr, archive, sink, flushed, work_dir, files, procs,
                   submitted, finish_calls, last_new, last_write, failed_wait,
                   input_files, reliable, tarvars>>

\* archive.write_file(&self.path, name)? (line 226; write_file, lines
\* 105-141): the entry is appended; or metadata() finds no file and
\* nothing is written; or a write fails after part of the entry reached
\* the sink.
FinishWrite ==
    /\ pc = "finish_write"
    /\ \/ /\ SourceExists(cur.path)
          /\ sink' = Append(sink, Entry(cur, index, width))
          /\ last_write' = [task |-> cur.input, content |-> Content(cur.path)]
          /\ pc' = "finish_remove"
          /\ UNCHANGED result
       \/ /\ ~SourceExists(cur.path)
          /\ sink' = sink
          /\ result' = "Err(write_file)"
          /\ pc' = "drop_task_queue"
          /\ UNCHANGED last_write
       \/ /\ SourceExists(cur.path)
          /\ ~reliable
          /\ sink' = Append(sink, Partial)
          /\ result' = "Err(write_file)"
          /\ pc' = "drop_task_queue"
          /\ UNCHANGED last_write
    /\ UNCHANGED <<conversion, inputs, width, inputs_queue, process_count,
                   prefill_left, task_queue, cur, ret, index, panicking, status,
                   stderr, archive, flushed, work_dir, files, procs,
                   submitted, finish_calls, last_new, failed_wait,
                   input_files, reliable, tarvars>>

\* fs::remove_file(&self.path).expect(..) unless Copy, then Ok(()) (lines
\* 227-230).
FinishRemove ==
    /\ pc = "finish_remove"
    /\ \/ /\ ~RemovesFile(cur.conversion)
          /\ cur' = NoTask
          /\ pc' = ret
          /\ UNCHANGED <<files, input_files, stderr, status, panicking>>
       \/ /\ RemovesFile(cur.conversion)
          /\ SourceExists(cur.path)
          /\ IF cur.path.dir = "work"
             THEN /\ files' = [files EXCEPT ![cur.path.id] = 0]
                  /\ UNCHANGED input_files
             ELSE /\ input_files' = input_files \ {cur.path.id}
                  /\ UNCHANGED files
          /\ cur' = NoTask
          /\ pc' = ret
          /\ UNCHANGED <<stderr, status, panicking>>
       \/ /\ RemovesFile(cur.conversion)
          /\ ~SourceExists(cur.path)
          /\ Panic("Could not remove temporary image file", "drop_task_queue")
          /\ UNCHANGED <<files, input_files, cur>>
    /\ UNCHANGED <<conversion, inputs, width, inputs_queue, process_count,
                   prefill_left, task_queue, ret, index, result,
                   archive, sink, flushed, work_dir, procs,
                   submitted, finish_calls, last_new, last_write, failed_wait,
                   reliable, tarvars>>

\* ------------------------------------------- leaving run(): the drops
\* The locals of run() are dropped in reverse order of declaration:
\* task_queue (a dropped Child is neither waited for nor killed), then
\* _work_dir, then archive.
DropTaskQueue ==
    /\ pc = "drop_task_queue"
    /\ task_queue' = <<>>
    /\ cur' = NoTask
    /\ pc' = "drop_work_dir"
    /\ UNCHANGED <<conversion, inputs, width, inputs_queue, process_count,
                   prefill_left, ret, index, result, panicking, status, stderr,
                   archive, sink, flushed, work_dir, files, procs,
                   submitted, finish_calls, last_new, last_write, failed_wait,
                   input_files, reliable, tarvars>>

\* Drop for TempDir (lines 76-80): remove_dir_all(..).expect(..)
DropWorkDir ==
    /\ pc = "drop_work_dir"
    /\ \/ /\ work_dir # "exists"
          /\ pc' = "drop_archive"
          /\ UNCHANGED <<work_dir, files, stderr, status, panicking>>
       \/ /\ work_dir = "exists"
          /\ work_dir' = "removed"
          /\ files' = [t \in Nanos |-> 0]
          /\ pc' = "drop_archive"
          /\ UNCHANGED <<stderr, status, panicking>>
       \/ /\ work_dir = "exists"
          /\ ~reliable
          /\ Panic("Could not remove temporary directory", "drop_archive")
          /\ UNCHANGED <<work_dir, files>>
    /\ UNCHANGED <<conversion, inputs, width, inputs_queue, process_count,
                   prefill_left, task_queue, cur, ret, index, result,
                   archive, sink, flushed, procs,
                   submitted, finish_calls, last_new, last_write, failed_wait,
                   input_files, reliable, tarvars>>

\* Drop for SimpleTarArchive, the marker (lines 146-149).
DropArchive ==
    /\ pc = "drop_archive"
    /\ \/ /\ sink' = Append(sink, EndMarker)
          /\ pc' = "drop_archive_flush"
          /\ UNCHANGED <<archive, stderr, status, panicking>>
       \/ /\ ~reliable
          /\ Panic("Could not write TAR file end-of-file marker", "main")
          /\ archive' = "dropped"
          /\ UNCHANGED sink
    /\ UNCHANGED <<conversion, inputs, width, inputs_queue, process_count,
                   prefill_left, task_queue, cur, ret, index, result,
                   flushed, work_dir, files, procs,
                   submitted, finish_calls, last_new, last_write, failed_wait,
                   input_files, reliable, tarvars>>

\* Drop for SimpleTarArchive, the flush (lines 151-154).
DropArchiveFlush ==
    /\ pc = "drop_archive_flush"
    /\ archive' = "dropped"
    /\ \/ /\ flushed' = TRUE
          /\ pc' = "main"
          /\ UNCHANGED <<stderr, status, panicking>>
       \/ /\ ~reliable
          /\ Panic("Could not flush TAR file buffer", "main")
          /\ UNCHANGED flushed
    /\ UNCHANGED <<conversion, inputs, width, inputs_queue, process_count,
                   prefill_left, task_queue, cur, ret, index, result,
                   sink, work_dir, files, procs,
                   submitted, finish_calls, last_new, last_write, failed_wait,
                   input_files, reliable, tarvars>>

\* main (lines 341-349): Ok ends the program with code 0, Err prints the
\* error and exits with 1; a panic that unwound run() ends it with 101.
Main ==
    /\ pc = "main"
    /\ pc' = "terminated"
    /\ IF panicking
       THEN /\ status' = "panic"
            /\ UNCHANGED stderr
       ELSE IF result = "Ok"
       THEN /\ status' = "exit0"
            /\ UNCHANGED stderr
       ELSE /\ status' = "exit1"
            /\ stderr' = Append(stderr, result)
    /\ UNCHANGED <<conversion, inputs, width, inputs_queue, process_count,
                   prefill_left, task_queue, cur, ret, index, result, panicking,
                   archive, sink, flushed, work_dir, files, procs,
                   submitted, finish_calls, last_new, last_write, failed_wait,
                   input_files, reliable, tarvars>>

\* ------------------------------------------------- the avifenc children
\* A child runs beside the main thread for as long as the program runs.
\* avifenc writes its output file (its second argument, lines 163-165) and
\* exits with success.
ProcExitOk(i) ==
    /\ status = "running"
    /\ procs[i].state = "running"
    /\ work_dir = "exists"
    /\ files' = [files EXCEPT ![procs[i].out] = i]
    /\ procs' = [procs EXCEPT ![i].state = "exited_ok"]
    /\ UNCHANGED <<conversion, inputs, width, inputs_queue, process_count,
                   prefill_left, task_queue, cur, ret, index, pc, result, panicking,
                   status, stderr, archive, sink, flushed, work_dir,
                   submitted, finish_calls, last_new, last_write, failed_wait,
                   input_files, reliable, tarvars>>

\* avifenc exits with a failure status, with or without having written
\* (part of) its output file.
ProcExitFail(i) ==
    /\ ~reliable
    /\ status = "running"
    /\ procs[i].state = "running"
    /\ \/ UNCHANGED files
       \/ /\ work_dir = "exists"
          /\ files' = [files EXCEPT ![procs[i].out] = i]
    /\ procs' = [procs EXCEPT ![i].state = "exited_fail"]
    /\ UNCHANGED <<conversion, inputs, width, inputs_queue, process_count,
                   prefill_left, task_queue, cur, ret, index, pc, result, panicking,
                   status, stderr, archive, sink, flushed, work_dir,
                   submitted, finish_calls, last_new, last_write, failed_wait,
                   input_files, reliable, tarvars>>

Child == \E i \in InputIds : ProcExitOk(i) \/ ProcExitFail(i)

Next ==
    \/ ArchiveCreate \/ WorkDirCreate \/ AvailableParallelism
    \/ Prefill \/ PrefillDone \/ LoopSubmit \/ LoopFinish \/ LoopDone
    \/ Drain \/ ReturnOk
    \/ FinishWait \/ FinishWaitErr \/ FinishWrite \/ FinishRemove
    \/ DropTaskQueue \/ DropWorkDir \/ DropArchive \/ DropArchiveFlush \/ Main
    \/ Child

Spec == Init /\ [][Next]_vars

\* ------------------------------------------ a run nothing fails in
\* A run in an environment that never fails: every system call that can
\* succeed does, and every avifenc child writes its file and exits with
\* success.
InitReliable == Setup /\ reliable = TRUE /\ NoTar

\* The steps of the main thread, wait() returning an error apart.
MainThread ==
    \/ ArchiveCreate \/ WorkDirCreate \/ AvailableParallelism
    \/ Prefill \/ PrefillDone \/ LoopSubmit \/ LoopFinish \/ LoopDone
    \/ Drain \/ ReturnOk
    \/ FinishWait \/ FinishWrite \/ FinishRemove
    \/ DropTaskQueue \/ DropWorkDir \/ DropArchive \/ DropArchiveFlush \/ Main

ChildOk == \E i \in InputIds : ProcExitOk(i)

NextReliable == MainThread \/ ChildOk

\* The main thread keeps running as long as it can take a step, and so
\* does every child: the operating system schedules each of them.
SpecReliable ==
    /\ InitReliable
    /\ [][NextReliable]_vars
    /\ WF_vars(MainThread)
    /\ \A i \in InputIds : WF_vars(ProcExitOk(i))

\* ------------------------------------ SimpleTarArchive, byte by byte
\* The archive writer taken alone: the tasks of a run are finished one
\* after another and what write_file writes is kept byte by byte.  A byte
\* is a number in 0..255, a string its ASCII bytes.
\* Files are up to MaxBlocks blocks long, give or take a byte.
MaxBlocks == 1
\* At most MaxTarCalls tasks are finished.
MaxTarCalls == 2

FileLens == {b * BlockSize + d : b \in 0..MaxBlocks, d \in {0, 1, BlockSize - 1}}
\* SystemTime::now() in seconds (lines 94-97): the epoch, or a date of today.
Mtimes == {0, 1730000000}

\* The bytes of a file of length len: never zero, and different from file
\* to file.
FileBytes(path, len) ==
    [j \in 1..len |-> 1 + ((j + 2 * path.id + (IF path.dir = "work" THEN 1 ELSE 0)) % 255)]

\* format!("{:o}", n): the octal digits of n, most significant first.
RECURSIVE OctalDigits(_)
OctalDigits(n) == IF n < 8 THEN <<n>> ELSE OctalDigits(n \div 8) \o <<n % 8>>
\* format!("{:0w$o}", n): padded with zeros to at least w digits.
FormatOctal(n, w) ==
    LET s == OctalDigits(n)
    IN  IF Len(s) >= w THEN s ELSE [i \in 1..(w - Len(s)) |-> 0] \o s
\* The ASCII bytes of a string of digits.
Ascii(ds) == [i \in 1..Len(ds) |-> 48 + ds[i]]
\* The bytes of the extension in an archive name, with its dot.
ExtBytes(e) ==
    CASE e = "" -> <<>>
      [] e = "png" -> <<46, 112, 110, 103>>
      [] e = "avif" -> <<46, 97, 118, 105, 102>>
\* format!("{:0fill$}{ext}", index, fill = width).as_bytes()
NameBytes(name) == Ascii(name.digits) \o ExtBytes(name.ext)

\* header[a..b].copy_from_slice(src), a and b counted from 0 as in the
\* source; it panics unless src is b - a bytes long, which it is for every
\* name, length and time of this model.
CopyFromSlice(header, a, b, src) ==
    SubSeq(header, 1, a) \o src \o SubSeq(header, b + 1, Len(header))

\* The header with the checksum field holding spaces (lines 110-121).
HeaderFields(file_name_bytes, file_len, mtime) ==
    LET h0 == [i \in 1..BlockSize |-> 0]
        h1 == CopyFromSlice(h0, 0, Len(file_name_bytes), file_name_bytes)
        h2 == CopyFromSlice(h1, 100, 107, <<48, 48, 48, 48, 52, 52, 52>>)
        h3 == CopyFromSlice(h2, 108, 115, <<48, 48, 48, 48, 48, 48, 48>>)
        h4 == CopyFromSlice(h3, 116, 123, <<48, 48, 48, 48, 48, 48, 48>>)
        h5 == CopyFromSlice(h4, 124, 135, Ascii(FormatOctal(file_len, 11)))
        h6 == CopyFromSlice(h5, 136, 147, Ascii(FormatOctal(mtime, 11)))
        h7 == CopyFromSlice(h6, 148, 156, <<32, 32, 32, 32, 32, 32, 32, 32>>)
        h8 == CopyFromSlice(h7, 156, 157, <<48>>)
        h9 == CopyFromSlice(h8, 257, 262, <<117, 115, 116, 97, 114>>)
    IN  CopyFromSlice(h9, 263, 265, <<48, 48>>)

\* header.iter().map(|x| *x as u32).sum() (line 124), here summed by
\* halves; the sum of 512 bytes is far below 2^32.
RECURSIVE SumBytes(_, _, _)
SumBytes(bytes, lo, hi) ==
    IF lo > hi THEN 0
    ELSE IF lo = hi THEN bytes[lo]
    ELSE LET mid == (lo + hi) \div 2
         IN  SumBytes(bytes, lo, mid) + SumBytes(bytes, mid + 1, hi)
ChecksumSkippingField(header) ==
    SumBytes([i \in 1..Len(header) |-> IF i \in 149..156 THEN 0 ELSE header[i]],
             1, Len(header))
Checksum(header) == SumBytes(header, 1, Len(header))

\* The header as written: format!("{:06o}\0", checksum) over the first
\* seven bytes of the checksum field (lines 125-126).
Header(file_name_bytes, file_len, mtime) ==
    LET h == HeaderFields(file_name_bytes, file_len, mtime)
    IN  CopyFromSlice(h, 148, 155, Ascii(FormatOctal(Checksum(h), 6)) \o <<0>>)

\* std::io::copy(&mut in_file, &mut self.writer) (line 132): the bytes
\* that reach the writer.
IoCopyAllButLast(bytes) == SubSeq(bytes, 1, Len(bytes) - 1)
IoCopy(bytes) == bytes

\* The number of bytes of ZEROS written after the content (lines 135-138).
PaddingLenAlways(file_len) == BlockSize - (file_len % BlockSize)
PaddingLen(file_len) ==
    IF file_len % BlockSize # 0 THEN BlockSize - (file_len % BlockSize) ELSE 0

\* What a successful write_file writes for a file holding `bytes`: file_len
\* is the length metadata() reports.
WriteFile(bytes, file_name_bytes, mtime) ==
    LET file_len == Len(bytes)
    IN  Header(file_name_bytes, file_len, mtime)
            \o IoCopy(bytes)
            \o [i \in 1..PaddingLen(file_len) |-> 0]

\* SimpleTarArchive::new (lines 91-99) for a run set up as in Setup, of
\* MaxInputs inputs or of ManyInputs (names of one digit, or of two).
InitTar ==
    /\ Setup
    /\ Len(inputs) \in {MaxInputs, ManyInputs}
    /\ reliable = FALSE
    /\ tar_state = "open"
    /\ tar_mtime \in Mtimes
    /\ tar_calls = 0
    /\ tar_src = [input |-> 0, len |-> 0]
    /\ tar_entry = <<>>
    /\ tar_total = 0

\* The tasks Task::new can make for the k-th input (lines 191-208): in
\* convert mode its file of the work directory has any name.
TarTasks(k) ==
    IF TaskConversion(conversion, inputs[k].ext) = "Copy"
    THEN {[input |-> k, path |-> inputs[k], conversion |-> "Copy", convert_proc |-> FALSE]}
    ELSE {[input |-> k, path |-> WorkPath(t), conversion |-> "Avif", convert_proc |-> TRUE] :
             t \in Nanos}

\* Task::finish of the next task, up to a successful write_file (lines
\* 217-226); its file is of any length of FileLens.
TarFinish ==
    /\ tar_state = "open"
    /\ tar_calls < Min(Len(inputs), MaxTarCalls)
    /\ \E len \in FileLens, task \in TarTasks(NextIndex(tar_calls)) :
          LET k == NextIndex(tar_calls)
          IN  /\ tar_calls' = k
              /\ tar_src' = [input |-> k, len |-> len]
              /\ tar_entry' = WriteFile(FileBytes(task.path, len),
                                        NameBytes(Entry(task, k, width).name), tar_mtime)
              /\ tar_total' = tar_total + Len(tar_entry')
    /\ UNCHANGED <<tar_state, tar_mtime, pipevars, reliable>>

\* write_file returns an error after a part of the entry, none of it, its
\* first byte or its header, reached the writer.
TarFinishErr ==
    /\ tar_state = "open"
    /\ tar_calls < Min(Len(inputs), MaxTarCalls)
    /\ \E written \in {0, 1, BlockSize} : tar_total' = tar_total + written
    /\ tar_state' = "failed"
    /\ UNCHANGED <<tar_mtime, tar_calls, tar_src, tar_entry, pipevars, reliable>>

\* Drop for SimpleTarArchive (lines 144-156): the marker.
TarDrop ==
    /\ tar_state \in {"open", "failed"}
    /\ tar_state' = "dropped"
    /\ tar_total' = tar_total + ZEROS
    /\ UNCHANGED <<tar_mtime, tar_calls, tar_src, tar_entry, pipevars, reliable>>

NextTar == TarFinish \/ TarFinishErr \/ TarDrop

SpecTar == InitTar /\ [][NextTar]_vars

\* ============================================================ properties
IsEntry(r) == r.kind = "entry"
\* The entries written to the sink so far, in order.
Entries == SelectSeq(sink, IsEntry)
\* The program ended with exit code 0: run() returned Ok and every drop ran.
Succeeded == status = "exit0"
\* The tasks spawned and not yet finished: the queue and the task in finish.
InFlight == task_queue \o (IF cur = NoTask THEN <<>> ELSE <<cur>>)
\* The number of decimal digits of n, by its magnitude.
DigitCount(n) == CHOOSE w \in 1..6 : 10^(w - 1) <= n /\ n < 10^w
\* The number a sequence of decimal digits denotes.
RECURSIVE DigitsValue(_)
DigitsValue(ds) ==
    IF ds = <<>> THEN 0
    ELSE 10 * DigitsValue(SubSeq(ds, 1, Len(ds) - 1)) + ds[Len(ds)]
Printed(msg) == \E k \in 1..Len(stderr) : stderr[k] = msg

\* C1: the entries are written in the order the tasks were pushed: at any
\* moment the entries written are those of the first tasks submitted, in
\* submission order, and a successful run has written one entry per input.
C1_SubmissionOrder ==
    /\ Len(Entries) <= Len(submitted)
    /\ \A k \in 1..Len(Entries) : Entries[k].task = submitted[k]
    /\ Succeeded => /\ Len(submitted) = Len(inputs)
                    /\ Len(Entries) = Len(inputs)
                    /\ \A k \in 1..Len(inputs) : submitted[k] = inputs[k].id
\* A convert run of more inputs than processes, at least two at a time, succeeded.
C1_Witness ==
    /\ Succeeded
    /\ conversion = "Avif"
    /\ process_count >= 2
    /\ Len(inputs) > process_count

\* C2: Task::finish is called with the indices 1, 2, ... in order, the k-th
\* submitted task with index k; a successful run of N inputs has made N
\* calls and written N entries, the k-th named by k zero-padded to the
\* number of decimal digits of N.
C2_IndicesAndNames ==
    /\ \A k \in 1..Len(finish_calls) :
          /\ finish_calls[k].index = k
          /\ finish_calls[k].task = submitted[k]
    /\ Succeeded =>
          /\ Len(finish_calls) = Len(inputs)
          /\ Len(Entries) = Len(inputs)
          /\ \A k \in 1..Len(inputs) :
                /\ Entries[k].index = k
                /\ Len(Entries[k].name.digits) = DigitCount(Len(inputs))
                /\ DigitsValue(Entries[k].name.digits) = k
\* A run of ten or more inputs succeeded: its first name is padded.
C2_Witness ==
    /\ Succeeded
    /\ Len(inputs) >= 10
    /\ Entries[1].name.digits = <<0, 1>>

\* C3: the tasks spawned and not yet finished, and the children not yet
\* waited for, never number more than available_parallelism.
C3_BoundedInFlight ==
    /\ Len(task_queue) <= process_count
    /\ Len(InFlight) <= process_count
    /\ Cardinality({i \in InputIds : procs[i].state \in {"running", "exited_ok", "exited_fail"}})
          <= process_count
\* Right after the push of the main loop the queue is full, two or more deep.
C3_Witness ==
    /\ pc = "loop_finish"
    /\ conversion = "Avif"
    /\ process_count >= 2
    /\ Len(task_queue) = process_count

\* C4: once wait() has found the child of the task with index k to have
\* failed, the program has exited with code 1 and the sink holds no entry
\* with index k or greater, only the k-1 entries before.
C4_AbortOnFailure ==
    failed_wait # 0 =>
        /\ pc = "terminated"
        /\ status = "exit1"
        /\ Printed("ERROR! Image encoding process returned failure")
        /\ Len(Entries) = failed_wait - 1
        /\ \A k \in 1..Len(Entries) : Entries[k].index < failed_wait
\* The second or a later task failed, after earlier entries were written.
C4_Witness ==
    /\ failed_wait >= 2
    /\ status = "exit1"
    /\ Len(Entries) >= 1

\* C5 (as claimed): whenever the program has ended by exit code 0 or 1 (its
\* own exits: success, conversion failure, spawn failure, an I/O error
\* printed by main) after the work directory was created, the directory is
\* removed and holds no file.
C5_WorkDirRemovedOnEveryExit ==
    (status \in {"exit0", "exit1"} /\ work_dir # "none") =>
        /\ work_dir = "removed"
        /\ \A t \in Nanos : files[t] = 0

\* C6 (as claimed): no two convert tasks in flight have the same
\* intermediate output path.
C6_UniqueIntermediatePaths ==
    \A j, k \in 1..Len(InFlight) :
        (j # k /\ InFlight[j].convert_proc /\ InFlight[k].convert_proc)
            => InFlight[j].path # InFlight[k].path

\* C7 (as claimed): in convert mode an input whose extension is the target
\* extension, compared case-insensitively, becomes a Copy task without a
\* process, and any other input a Convert task with a process.
C7_DecisionByExtension ==
    (conversion = "Avif" /\ last_new.input # 0) =>
        IF ToAsciiLowercase(last_new.ext) = "avif"
        THEN last_new.conversion = "Copy" /\ ~last_new.spawned
        ELSE last_new.conversion = "Avif" /\ last_new.spawned
\* C7 (amended): the decision is made once per run, from the command line:
\* in convert mode every input, whatever its extension, becomes a Convert
\* task with one process spawned; in copy mode every input becomes a Copy
\* task with none.
C7_DecisionByMode ==
    /\ last_new.input # 0 =>
          /\ last_new.conversion = conversion
          /\ last_new.spawned = (conversion = "Avif")
    /\ \A k \in 1..Len(InFlight) :
          /\ InFlight[k].conversion = conversion
          /\ InFlight[k].convert_proc = (conversion = "Avif")
          /\ (procs[InFlight[k].input].state # "none") = (conversion = "Avif")
\* In convert mode an input that already has the extension avif (in upper
\* case) was given to avifenc.
C7_Witness ==
    /\ conversion = "Avif"
    /\ ToAsciiLowercase(last_new.ext) = "avif"
    /\ last_new.conversion = "Avif"
    /\ last_new.spawned
    /\ procs[last_new.input].state = "running"

\* C8: the end marker is never followed by anything, and after a successful
\* run of N inputs the sink holds the N entries, then one marker of two
\* 512-byte blocks of zeros, and was flushed.
C8_EndMarker ==
    /\ \A k \in 1..Len(sink) : sink[k].kind = "zeros" => k = Len(sink)
    /\ flushed => (sink # <<>> /\ sink[Len(sink)].kind = "zeros")
    /\ Succeeded =>
          /\ Len(sink) = Len(inputs) + 1
          /\ \A k \in 1..Len(inputs) : sink[k].kind = "entry"
          /\ sink[Len(sink)].kind = "zeros"
          /\ sink[Len(sink)].len = 2 * BlockSize
          /\ flushed
          /\ archive = "dropped"
\* A convert run of several inputs succeeded.
C8_Witness ==
    /\ Succeeded
    /\ conversion = "Avif"
    /\ Len(inputs) >= 2
    /\ sink[Len(sink)].kind = "zeros"

\* C9 (as claimed): whenever the program has ended by exit code 0 or 1 with
\* the archive writer created, the writer was released, the end marker is
\* the last thing in the sink and the sink was flushed.
C9_WriterReleasedOnEveryExit ==
    (status \in {"exit0", "exit1"} /\ archive # "none") =>
        /\ archive = "dropped"
        /\ sink # <<>>
        /\ sink[Len(sink)].kind = "zeros"
        /\ flushed

\* C10 (as claimed): when run() returns an I/O error of write_file and the
\* cleanup on the way out fails, the program still prints that error.
C10_PrimaryErrorReported ==
    (pc = "terminated" /\ result = "Err(write_file)" /\ panicking) =>
        Printed("Err(write_file)")

\* ------------------------------------------- the archive, byte by byte
\* The number a sequence of octal ASCII digits denotes.
RECURSIVE OctalValue(_)
OctalValue(bs) ==
    IF bs = <<>> THEN 0
    ELSE 8 * OctalValue(SubSeq(bs, 1, Len(bs) - 1)) + (bs[Len(bs)] - 48)
\* The length the size field of the latest entry's header states (the
\* header is the first 512 bytes of the entry).
SizeField == OctalValue(SubSeq(tar_entry, 125, 135))
\* The source file of the latest task finished, when it is a Copy task.
SourceBytes == FileBytes(inputs[tar_src.input], tar_src.len)

\* C11: for a Copy task the bytes of its entry between the header and the
\* padding, as many as the size field of the header states, are the bytes
\* of its source input file, as many and the same.
C11_CopyRoundTrip ==
    (tar_calls > 0 /\ conversion = "Copy") =>
        /\ SizeField = Len(SourceBytes)
        /\ Len(tar_entry) >= BlockSize + SizeField
        /\ SubSeq(tar_entry, BlockSize + 1, BlockSize + SizeField) = SourceBytes
\* The second Copy task was finished, of a file longer than a block and
\* not a whole number of blocks.
C11_Witness ==
    /\ conversion = "Copy"
    /\ tar_calls >= 2
    /\ tar_src.len > BlockSize
    /\ tar_src.len % BlockSize # 0

\* C12: after its 512-byte header a successful write_file has written the
\* file length rounded up to a multiple of 512 in bytes, all zero beyond the
\* file length, and exactly the file length when that is a multiple of 512;
\* as long as no write_file call has failed the total written is a multiple
\* of 512.
C12_PayloadPadded ==
    /\ tar_calls > 0 =>
          LET L == tar_src.len
              payload_len == Len(tar_entry) - BlockSize
          IN  /\ payload_len = ((L + BlockSize - 1) \div BlockSize) * BlockSize
              /\ \A j \in (L + 1)..payload_len : tar_entry[BlockSize + j] = 0
              /\ (L % BlockSize = 0) => payload_len = L
    /\ tar_state = "open" => tar_total % BlockSize = 0
\* The second call wrote a file of exactly one block, with no padding.
C12_Witness ==
    /\ tar_state = "open"
    /\ tar_calls >= 2
    /\ tar_src.len = BlockSize
    /\ Len(tar_entry) = 2 * BlockSize

\* C13: the checksum field of a header written holds six octal digits, a
\* NUL and a space; the digits denote the sum of the 512 header bytes taken
\* with the eight bytes of the field as spaces, and that sum is below 8^6.
C13_Checksum ==
    tar_calls > 0 =>
        LET blanked == [i \in 1..BlockSize |->
                           IF i \in 149..156 THEN 32 ELSE tar_entry[i]]
            sum == SumBytes(blanked, 1, BlockSize)
        IN  /\ \A i \in 149..154 : tar_entry[i] \in 48..55
            /\ tar_entry[155] = 0
            /\ tar_entry[156] = 32
            /\ OctalValue(SubSeq(tar_entry, 149, 154)) = sum
            /\ sum < 8^6
\* A header with a two-digit name, an extension, a size and a time in it.
C13_Witness ==
    /\ tar_calls > 0
    /\ width = 2
    /\ tar_mtime > 0
    /\ tar_src.len > 0
    /\ tar_entry[3] = 46

\* ------------------------------------------------ the pipeline, again
\* C14: whenever Task::finish of a Convert task is at write_file or past it,
\* wait() has collected the task's child and found it successful; every
\* entry of a convert run belongs to a task whose child was collected, and
\* no entry belongs to the task whose child was found to have failed.
C14_ReadAfterSuccess ==
    /\ (pc \in {"finish_write", "finish_remove"} /\ cur.convert_proc) =>
          /\ procs[cur.input] = Reaped
          /\ failed_wait = 0
    /\ \A k \in 1..Len(Entries) :
          /\ conversion = "Avif" => procs[Entries[k].task] = Reaped
          /\ Entries[k].index # failed_wait
\* The second or a later Convert task is at write_file while another child
\* is still running.
C14_Witness ==
    /\ pc = "finish_write"
    /\ cur.convert_proc
    /\ index >= 2
    /\ \E i \in InputIds : procs[i].state = "running"

\* C15 (as claimed): an intermediate file is deleted only after its task's
\* bytes were written into the archive, so a queued task whose child has
\* exited with success still has its file; between two calls of
\* Task::finish every file of the work directory is the file of a queued
\* task, written by that task's child.
C15_DeletedAfterWritten ==
    (status = "running" /\ work_dir = "exists") =>
        /\ \A k \in 1..Len(task_queue) :
              procs[task_queue[k].input].state = "exited_ok"
                  => Exists(task_queue[k].path.id)
        /\ pc \in {"prefill", "loop", "loop_finish", "drain"} =>
              \A t \in Nanos :
                  Exists(t) => \E k \in 1..Len(task_queue) :
                                  /\ task_queue[k].path = WorkPath(t)
                                  /\ task_queue[k].input = files[t]

C18_NoChildAtRemoval ==
    (/\ (pc = "drop_work_dir" /\ work_dir = "exists") \/ work_dir = "removed"
     /\ result # "Err(wait)") =>
        \A i \in InputIds : procs[i].state \in {"none", "reaped"}

\* C19 (as claimed): in convert mode the content of an entry is the file the
\* avifenc child of the entry's own task wrote, and a task whose child
\* has exited with success finds its file when it reaches write_file.
C19_OwnOutput ==
    conversion = "Avif" =>
        /\ last_write.task # 0 =>
              last_write.content = [src |-> "avifenc", id |-> last_write.task]
        /\ (pc = "finish_write" /\ cur.convert_proc) => SourceExists(cur.path)

====
